---- MODULE Spec2Model ----
(***************************************************************************)
(* Model of csrc/cache_kernels.cu: the block transfer (swap_blocks), block *)
(* replication (copy_blocks), cache scatter (reshape_and_cache,            *)
(* reshape_and_cache_flash) and precision conversion (convert_fp8)         *)
(* engines of a paged key-value cache.                                     *)
(*                                                                         *)
(* Host functions are actions that check their arguments and enqueue work  *)
(* on the CUDA stream; the enqueued copies and kernel threads are separate *)
(* actions, so a call returns with its work still pending.  Buffers are    *)
(* functions from element offset to value.  All data movement in the file  *)
(* is plain assignment, so buffers start with pairwise distinct values:    *)
(* any other content is an image of that one.                              *)
(***************************************************************************)
EXTENDS Integers, Sequences, FiniteSets, TLC

\* ------------------------------------------------------------------ bounds
SwapBlocks == 2
MaxPairs == 2
MaxNumel == 2
CacheBlocks == 3
ChainBlocks == 4
MaxLayers == 2
MaxThreads == 4
MaxDim == 2
MaxTokens == 2
ScatterBlocks == 2

\* element_size() of the dtypes a cache tensor can have (uint8, half, float)
ElementSizes == {1, 2, 4}

VARIABLES
    \* ---- swap_blocks
    sw_args,      \* the call's arguments: devices, block_mapping, shape
    sw_src,       \* bytes of src
    sw_dst,       \* bytes of dst
    sw_stream,    \* cudaMemcpyAsync copies enqueued and not yet executed
    sw_status,    \* "idle" | "returned" | "error"
    sw_call,      \* history: what the call saw and left behind
    \* ---- copy_blocks
    cb_args,      \* the layer lists' shape and the calls the caller will make
    key_caches,   \* [layer list -> [layer -> [offset -> element]]]
    value_caches,
    cb_next,      \* index of the caller's next call
    cb_queue,     \* kernels launched on the stream and not yet finished
    cb_log,       \* history: one record per call made
    \* ---- reshape_and_cache, reshape_and_cache_flash
    sc_args,      \* the call's arguments: shapes, slot_mapping, kv_cache_dtype
    key_cache,    \* [offset -> element]
    value_cache,
    sc_status,    \* "idle" | "launched" | "error_..."
    sc_threads,   \* the kernel's threads: [<<token_idx, i>> -> pc]
    sc_writes,    \* history: the stores made, and the caches before the call
    \* ---- convert_fp8
    cv_args,      \* the call's arguments: devices, dtypes, kv_cache_dtype, shape
    dst_cache,    \* [offset -> element]
    cv_status,    \* "idle" | "returned" | "error_..."
    cv_kernel     \* the convert_fp8_kernel launched: instantiation and threads left

swapVars == <<sw_args, sw_src, sw_dst, sw_stream, sw_status, sw_call>>
copyVars == <<cb_args, key_caches, value_caches, cb_next, cb_queue, cb_log>>

scatterVars == <<sc_args, key_cache, value_cache, sc_status, sc_threads, sc_writes>>

convertVars == <<cv_args, dst_cache, cv_status, cv_kernel>>

vars == <<swapVars, copyVars, scatterVars, convertVars>>

\* ------------------------------------------------------------------ helpers
Range(s) == {s[k] : k \in DOMAIN s}

SeqsUpTo(S, n) == UNION {[1..k -> S] : k \in 0..n}

\* ==================================================================
\* Block transfer engine: swap_blocks
\* ==================================================================
Cpu == [type |-> "cpu", index |-> -1]
Cuda(i) == [type |-> "cuda", index |-> i]
Meta == [type |-> "meta", index |-> 0]
Devices == {Cpu, Cuda(0), Cuda(1), Meta}

is_cuda(d) == d.type = "cuda"
is_cpu(d) == d.type = "cpu"

memcpy_type_any_gpu(src_device, dst_device) ==
    IF is_cuda(src_device) /\ is_cuda(dst_device) THEN "cudaMemcpyDeviceToDevice"
    ELSE IF is_cuda(src_device) /\ is_cpu(dst_device) THEN "cudaMemcpyDeviceToHost"
    ELSE IF is_cpu(src_device) /\ is_cuda(dst_device) THEN "cudaMemcpyHostToDevice"
    ELSE "error_invalid_device_combination"

\* the if/else chain over the two devices: the cudaMemcpyKind, or the
\* TORCH_CHECK that fails
memcpy_type(src_device, dst_device) ==
    IF is_cuda(src_device) /\ is_cuda(dst_device)
    THEN IF src_device.index = dst_device.index
         THEN "cudaMemcpyDeviceToDevice" ELSE "error_same_gpu"
    ELSE IF is_cuda(src_device) /\ is_cpu(dst_device)
    THEN "cudaMemcpyDeviceToHost"
    ELSE IF is_cpu(src_device) /\ is_cuda(dst_device)
    THEN "cudaMemcpyHostToDevice"
    ELSE "error_invalid_device_combination"

block_size_in_bytes(a) == a.element_size * a.numel

src_offset_unscaled(a, i) == a.block_mapping[i][1]

src_offset(a, i) == a.block_mapping[i][1] * block_size_in_bytes(a)

dst_offset(a, i) == a.block_mapping[i][2] * block_size_in_bytes(a)

\* the loop over the pairs: one cudaMemcpyAsync per pair, in mapping order
enqueued_copies(a) ==
    [i \in 1..Len(a.block_mapping) |->
        [dst_off |-> dst_offset(a, i), src_off |-> src_offset(a, i),
         nbytes |-> block_size_in_bytes(a),
         kind |-> memcpy_type(a.src_device, a.dst_device)]]

SwapArgs ==
    [src_device : Devices, dst_device : Devices,
     block_mapping_device : {Cpu, Cuda(0)},
     element_size : ElementSizes, numel : 1..MaxNumel,
     block_mapping : SeqsUpTo((0..SwapBlocks-1) \X (0..SwapBlocks-1), MaxPairs)]

SwapBytes(a) == 0 .. SwapBlocks * block_size_in_bytes(a) - 1

swap_parked ==
    /\ sw_args = <<>> /\ sw_src = <<>> /\ sw_dst = <<>>
    /\ sw_stream = <<>> /\ sw_status = "parked" /\ sw_call = <<>>

swap_init ==
    /\ sw_args \in SwapArgs
    /\ sw_src = [o \in SwapBytes(sw_args) |-> 1 + o]
    /\ sw_dst = [o \in SwapBytes(sw_args) |-> -1 - o]
    /\ sw_stream = <<>>
    /\ sw_status = "idle"
    /\ sw_call = <<>>

swap_blocks ==
    /\ sw_status = "idle"
    /\ LET kind == memcpy_type(sw_args.src_device, sw_args.dst_device)
           failed == IF kind \in {"error_same_gpu", "error_invalid_device_combination"}
                     THEN kind
                     ELSE IF ~is_cpu(sw_args.block_mapping_device)
                     THEN "error_block_mapping_cpu"
                     ELSE "none"
       IN /\ sw_status' = IF failed = "none" THEN "returned" ELSE "error"
          /\ sw_stream' = IF failed = "none" THEN enqueued_copies(sw_args) ELSE <<>>
          /\ sw_call' = [src |-> sw_src, dst |-> sw_dst, error |-> failed,
                         pending |-> Len(sw_stream')]
    /\ UNCHANGED <<sw_args, sw_src, sw_dst>>
    /\ UNCHANGED <<copyVars, scatterVars, convertVars>>

\* the stream executes the copies in the order they were enqueued
memcpy_step ==
    /\ sw_stream # <<>>
    /\ LET c == Head(sw_stream)
       IN sw_dst' = [o \in DOMAIN sw_dst |->
                        IF o >= c.dst_off /\ o < c.dst_off + c.nbytes
                        THEN sw_src[c.src_off + (o - c.dst_off)]
                        ELSE sw_dst[o]]
    /\ sw_stream' = Tail(sw_stream)
    /\ UNCHANGED <<sw_args, sw_src, sw_status, sw_call>>
    /\ UNCHANGED <<copyVars, scatterVars, convertVars>>

\* ==================================================================
\* Block replication engine: copy_blocks and vllm::copy_blocks_kernel
\* ==================================================================
\* block_mapping.data_ptr<int64_t>(): the [num_pairs, 2] tensor as the kernel
\* reads it, a flat row-major array
flat(block_mapping) ==
    [k \in 1..2 * Len(block_mapping) |-> block_mapping[(k + 1) \div 2][2 - (k % 2)]]

src_block_number_previous(block_mapping, pair_idx) ==
    IF flat(block_mapping)[2 * pair_idx + 1] = 0 THEN 0
    ELSE flat(block_mapping)[2 * pair_idx + 1] - 1

\* block_mapping[2 * pair_idx] and block_mapping[2 * pair_idx + 1], 0-based
src_block_number(block_mapping, pair_idx) == flat(block_mapping)[2 * pair_idx + 1]

dst_block_number(block_mapping, pair_idx) == flat(block_mapping)[2 * pair_idx + 2]

src_block_offset_unscaled(k, pair_idx) == src_block_number(k.block_mapping, pair_idx)

src_block_offset(k, pair_idx) == src_block_number(k.block_mapping, pair_idx) * k.numel_per_block

dst_block_offset_unscaled(k, pair_idx) == dst_block_number(k.block_mapping, pair_idx)

dst_block_offset(k, pair_idx) == dst_block_number(k.block_mapping, pair_idx) * k.numel_per_block

\* blockDim.x = min(1024, numel_per_block): below 1024 elements a block each
\* thread copies exactly one element i = threadIdx.x, first of the key cache,
\* then of the value cache.  A copy is a load followed by a store.
grid(num_layers, num_pairs, numel_per_block) ==
    (0..num_layers-1) \X (0..num_pairs-1) \X (0..numel_per_block-1)

launched_threads(num_layers, num_pairs, numel_per_block) ==
    [t \in grid(num_layers, num_pairs, numel_per_block) |-> [pc |-> "load_key", reg |-> 0]]

cache_numel(a) == a.num_blocks * a.numel_per_block

\* distinct values everywhere; both layer lists start with the same content
initial_cache(a, kv) ==
    [g \in 1..a.num_lists |->
        [l \in 0..a.num_layers-1 |->
            [o \in 0..cache_numel(a)-1 |-> 100 * (2 * l + kv) + o + 1]]]

copy_parked ==
    /\ cb_args = <<>> /\ key_caches = <<>> /\ value_caches = <<>>
    /\ cb_next = 0 /\ cb_queue = <<>> /\ cb_log = <<>>

copy_start(a) ==
    /\ cb_args = a
    /\ key_caches = initial_cache(a, 0)
    /\ value_caches = initial_cache(a, 1)
    /\ cb_next = 1
    /\ cb_queue = <<>>
    /\ cb_log = <<>>

\* one call with any mapping, on any shape the thread budget allows
copy_init ==
    \E num_layers \in 0..MaxLayers, numel_per_block \in 1..MaxNumel, num_pairs \in 0..MaxPairs,
       num_value_layers \in 0..MaxLayers, cache_device \in {Cuda(0), Cpu} :
        /\ num_layers * numel_per_block * num_pairs <= MaxThreads
        /\ num_value_layers \in {num_layers, (num_layers + 1) % (MaxLayers + 1)}
        /\ \E block_mapping \in [1..num_pairs -> (0..CacheBlocks-1) \X (0..CacheBlocks-1)] :
              copy_start([num_lists |-> 1, num_layers |-> num_layers,
                          num_value_layers |-> num_value_layers,
                          cache_device |-> cache_device,
                          num_blocks |-> CacheBlocks,
                          numel_per_block |-> numel_per_block,
                          synchronize |-> FALSE,
                          plan |-> <<[list |-> 1, block_mapping |-> block_mapping]>>])

Injective(f) == \A i, j \in DOMAIN f : f[i] = f[j] => i = j

Pairs(S, D) == [i \in DOMAIN S |-> <<S[i], D[i]>>]

\* the caller replicates A -> B, then B -> C, in one layer list, and A -> C
\* in a second layer list that holds the same content, synchronizing with
\* the stream before each call; no list of destinations names a block twice
chain_init ==
    \E n \in 0..MaxPairs, numel_per_block \in 1..MaxNumel, num_layers \in 1..MaxLayers :
        /\ num_layers * numel_per_block * n <= MaxThreads \div 2
        /\ \E A \in [1..n -> 0..ChainBlocks-1],
              B \in {f \in [1..n -> 0..ChainBlocks-1] : Injective(f)},
              C \in {f \in [1..n -> 0..ChainBlocks-1] : Injective(f)} :
              copy_start([num_lists |-> 2, num_layers |-> num_layers,
                          num_value_layers |-> num_layers,
                          cache_device |-> Cuda(0),
                          num_blocks |-> ChainBlocks,
                          numel_per_block |-> numel_per_block,
                          synchronize |-> TRUE,
                          plan |-> <<[list |-> 1, block_mapping |-> Pairs(A, B)],
                                     [list |-> 1, block_mapping |-> Pairs(B, C)],
                                     [list |-> 2, block_mapping |-> Pairs(A, C)]>>])

\* the caller's next call; a caller that synchronizes makes it once the
\* stream has drained
copy_blocks ==
    /\ cb_next \in 1..Len(cb_args.plan)
    /\ cb_args.synchronize => cb_queue = <<>>
    /\ LET call == cb_args.plan[cb_next]
           num_layers == cb_args.num_layers
           num_pairs == Len(call.block_mapping)
           outcome == IF num_layers # cb_args.num_value_layers THEN "error_num_layers"
                      ELSE IF num_layers = 0 THEN "returned_no_layers"
                      ELSE IF ~is_cuda(cb_args.cache_device) THEN "error_not_cuda"
                      ELSE "launched"
           kernel == [list |-> call.list, block_mapping |-> call.block_mapping,
                      numel_per_block |-> cb_args.numel_per_block,
                      threads |-> launched_threads(num_layers, num_pairs,
                                                   cb_args.numel_per_block)]
       IN /\ cb_queue' = IF outcome = "launched" /\ DOMAIN kernel.threads # {}
                         THEN Append(cb_queue, kernel) ELSE cb_queue
          /\ cb_log' = Append(cb_log, [outcome |-> outcome, call |-> call])
    /\ cb_next' = cb_next + 1
    /\ UNCHANGED <<cb_args, key_caches, value_caches>>
    /\ UNCHANGED <<swapVars, scatterVars, convertVars>>

\* the kernel at the head of the stream, with thread t moved on
advance(t, pc, reg) ==
    LET k == Head(cb_queue)
        threads == [k.threads EXCEPT ![t] = [pc |-> pc, reg |-> reg]]
    IN IF \A u \in DOMAIN threads : threads[u].pc = "done"
       THEN Tail(cb_queue)
       ELSE <<[k EXCEPT !.threads = threads]>> \o Tail(cb_queue)

running(t, pc) ==
    /\ cb_queue # <<>>
    /\ t \in DOMAIN Head(cb_queue).threads
    /\ Head(cb_queue).threads[t].pc = pc

\* key_cache[dst_offset] = key_cache[src_offset], the load
copy_blocks_kernel_load_key(t) ==
    /\ running(t, "load_key")
    /\ LET k == Head(cb_queue)
           src == src_block_offset(k, t[2]) + t[3]
       IN cb_queue' = advance(t, "store_key", key_caches[k.list][t[1]][src])
    /\ UNCHANGED <<cb_args, key_caches, value_caches, cb_next, cb_log>>
    /\ UNCHANGED <<swapVars, scatterVars, convertVars>>

\* key_cache[dst_offset] = key_cache[src_offset], the store
copy_blocks_kernel_store_key(t) ==
    /\ running(t, "store_key")
    /\ LET k == Head(cb_queue)
           dst == dst_block_offset(k, t[2]) + t[3]
       IN /\ key_caches' = [key_caches EXCEPT ![k.list][t[1]][dst] = k.threads[t].reg]
          /\ cb_queue' = advance(t, "load_value", 0)
    /\ UNCHANGED <<cb_args, value_caches, cb_next, cb_log>>
    /\ UNCHANGED <<swapVars, scatterVars, convertVars>>

copy_blocks_kernel_load_value(t) ==
    /\ running(t, "load_value")
    /\ LET k == Head(cb_queue)
           src == src_block_offset(k, t[2]) + t[3]
       IN cb_queue' = advance(t, "store_value", value_caches[k.list][t[1]][src])
    /\ UNCHANGED <<cb_args, key_caches, value_caches, cb_next, cb_log>>
    /\ UNCHANGED <<swapVars, scatterVars, convertVars>>

copy_blocks_kernel_store_value(t) ==
    /\ running(t, "store_value")
    /\ LET k == Head(cb_queue)
           dst == dst_block_offset(k, t[2]) + t[3]
       IN /\ value_caches' = [value_caches EXCEPT ![k.list][t[1]][dst] = k.threads[t].reg]
          /\ cb_queue' = advance(t, "done", 0)
    /\ UNCHANGED <<cb_args, key_caches, cb_next, cb_log>>
    /\ UNCHANGED <<swapVars, scatterVars, convertVars>>

AllThreads == grid(MaxLayers + 1, MaxPairs + 1, MaxNumel + 1)

\* ==================================================================
\* Cache scatter engine: reshape_and_cache(_flash) and their kernels
\* ==================================================================
\* key and value are contiguous [num_tokens, num_heads, head_size] tensors
key_stride(a) == a.num_heads * a.head_size

value_stride(a) == a.num_heads * a.head_size

\* the inputs, pairwise distinct and distinct from what the caches hold
key(a) == [k \in 0..a.num_tokens * key_stride(a) - 1 |-> 1000 + k]

value(a) == [k \in 0..a.num_tokens * value_stride(a) - 1 |-> 2000 + k]

is_padding_below_sentinel(slot_idx) == slot_idx < -1

\* if (slot_idx < 0): a padding token
is_padding(slot_idx) == slot_idx < 0

block_idx(a, slot_idx) == slot_idx \div a.block_size

block_offset(a, slot_idx) == slot_idx % a.block_size

head_idx(a, i) == i \div a.head_size

head_offset(a, i) == i % a.head_size

x_idx(a, i) == head_offset(a, i) \div a.x

x_offset(a, i) == head_offset(a, i) % a.x

tgt_key_idx_no_x(a, slot_idx, i) ==
    block_idx(a, slot_idx) * a.num_heads * (a.head_size \div a.x) * a.block_size * a.x
    + head_idx(a, i) * (a.head_size \div a.x) * a.block_size * a.x
    + x_idx(a, i) * a.block_size * a.x
    + block_offset(a, slot_idx) + x_offset(a, i)

\* reshape_and_cache_kernel: key cache [num_blocks, num_heads, head_size/x, block_size, x]
tgt_key_idx(a, slot_idx, i) ==
    block_idx(a, slot_idx) * a.num_heads * (a.head_size \div a.x) * a.block_size * a.x
    + head_idx(a, i) * (a.head_size \div a.x) * a.block_size * a.x
    + x_idx(a, i) * a.block_size * a.x
    + block_offset(a, slot_idx) * a.x + x_offset(a, i)

tgt_value_idx_token_major(a, slot_idx, i) ==
    block_idx(a, slot_idx) * a.num_heads * a.head_size * a.block_size
    + block_offset(a, slot_idx) * a.num_heads * a.head_size
    + head_idx(a, i) * a.head_size + head_offset(a, i)

\* reshape_and_cache_kernel: value cache [num_blocks, num_heads, head_size, block_size]
tgt_value_idx(a, slot_idx, i) ==
    block_idx(a, slot_idx) * a.num_heads * a.head_size * a.block_size
    + head_idx(a, i) * a.head_size * a.block_size
    + head_offset(a, i) * a.block_size
    + block_offset(a, slot_idx)

flash_tgt_value_idx_one_head(a, slot_idx, i) ==
    block_idx(a, slot_idx) * a.block_stride
    + block_offset(a, slot_idx) * a.head_size
    + head_idx(a, i) * a.head_size + head_offset(a, i)

\* reshape_and_cache_flash_kernel: both caches [num_blocks, block_size, num_heads, head_size]
flash_tgt_value_idx(a, slot_idx, i) ==
    block_idx(a, slot_idx) * a.block_stride
    + block_offset(a, slot_idx) * a.num_heads * a.head_size
    + head_idx(a, i) * a.head_size + head_offset(a, i)

\* where thread i of token's block stores in the key cache and the value cache
key_target(a, slot_idx, i) ==
    IF a.layout = "split" THEN tgt_key_idx(a, slot_idx, i)
    ELSE flash_tgt_value_idx(a, slot_idx, i)

value_target(a, slot_idx, i) ==
    IF a.layout = "split" THEN tgt_value_idx(a, slot_idx, i)
    ELSE flash_tgt_value_idx(a, slot_idx, i)

\* element counts of the cache tensors, from their shapes
key_cache_numel(a) ==
    IF a.layout = "split"
    THEN a.num_blocks * a.num_heads * (a.head_size \div a.x) * a.block_size * a.x
    ELSE a.num_blocks * a.block_stride

value_cache_numel(a) ==
    IF a.layout = "split"
    THEN a.num_blocks * a.num_heads * a.head_size * a.block_size
    ELSE a.num_blocks * a.v_block_stride

scatter_parked ==
    /\ sc_args = <<>> /\ key_cache = <<>> /\ value_cache = <<>>
    /\ sc_status = "parked" /\ sc_threads = <<>> /\ sc_writes = <<>>

scatter_start(a) ==
    /\ sc_args = a
    /\ key_cache = [o \in 0..key_cache_numel(a)-1 |-> -1 - o]
    /\ value_cache = [o \in 0..value_cache_numel(a)-1 |-> -501 - o]
    /\ sc_status = "idle"
    /\ sc_threads = <<>>
    /\ sc_writes = <<>>

\* caches shaped as the kernels' comments say: x divides head_size, a flat
\* block holds at least block_size vectors, every slot is below
\* num_blocks * block_size or negative
scatter_init ==
    \E layout \in {"split", "flat"}, num_tokens \in 0..MaxTokens,
       num_heads \in 1..MaxDim, head_size \in 1..MaxDim,
       block_size \in 1..MaxDim, x \in 1..MaxDim, pad \in 0..1, v_pad \in 0..1,
       kv_cache_dtype \in {"auto", "fp8"} :
        /\ num_tokens * num_heads * head_size <= MaxThreads
        /\ head_size % x = 0
        /\ layout = "split" => pad = 0 /\ v_pad = 0 /\ kv_cache_dtype = "auto"
        /\ layout = "flat" => x = 1
        /\ \E slot_mapping \in [0..num_tokens-1 -> -1..ScatterBlocks * block_size - 1] :
           scatter_start([layout |-> layout, num_tokens |-> num_tokens,
                          num_heads |-> num_heads, head_size |-> head_size,
                          block_size |-> block_size, x |-> x,
                          num_blocks |-> ScatterBlocks,
                          slot_mapping |-> slot_mapping,
                          kv_cache_dtype |-> kv_cache_dtype,
                          block_stride |-> block_size * num_heads * head_size + pad,
                          v_block_stride |-> block_size * num_heads * head_size + pad + v_pad])

\* any positive shape and any block stride the host functions let through,
\* with slot mappings whose non-negative slots are distinct and below
\* num_blocks * block_size
addr_init ==
    \E layout \in {"split", "flat"}, num_tokens \in 0..MaxTokens,
       num_heads \in 1..MaxDim, head_size \in 1..MaxDim,
       block_size \in 1..MaxDim, x \in 1..MaxDim,
       block_stride \in 1..MaxDim * MaxDim * MaxDim + 1 :
        /\ num_tokens * num_heads * head_size <= MaxThreads
        /\ layout = "split" => block_stride = 1
        /\ layout = "flat" => x = 1 /\ block_stride <= block_size * num_heads * head_size + 1
        /\ \E slot_mapping \in [0..num_tokens-1 -> -1..ScatterBlocks * block_size - 1] :
           /\ \A t, u \in 0..num_tokens-1 :
                 slot_mapping[t] >= 0 /\ slot_mapping[t] = slot_mapping[u] => t = u
           /\ scatter_start([layout |-> layout, num_tokens |-> num_tokens,
                          num_heads |-> num_heads, head_size |-> head_size,
                          block_size |-> block_size, x |-> x,
                          num_blocks |-> ScatterBlocks,
                          slot_mapping |-> slot_mapping,
                          kv_cache_dtype |-> "auto",
                          block_stride |-> block_stride,
                          v_block_stride |-> block_stride])

\* dim3 grid(num_tokens), block(min(num_heads * head_size, 512)): below 512
\* channels each thread handles exactly one channel i = threadIdx.x
scatter_grid(a) == (0..a.num_tokens-1) \X (0..a.num_heads * a.head_size - 1)

\* the kernel instantiated with kv_dt = kAuto
reshape_and_cache ==
    /\ sc_status = "idle"
    /\ sc_args.layout = "split"
    /\ sc_status' = "launched"
    /\ sc_threads' = [t \in scatter_grid(sc_args) |-> "enter"]
    /\ sc_writes' = [key_cache |-> key_cache, value_cache |-> value_cache, stores |-> {}]
    /\ UNCHANGED <<sc_args, key_cache, value_cache>>
    /\ UNCHANGED <<swapVars, copyVars, convertVars>>

flash_checks_stride_only(a) ==
    IF a.block_stride # a.v_block_stride THEN "error_stride" ELSE "launched"

\* the two TORCH_CHECKs of reshape_and_cache_flash, in order
flash_checks(a) ==
    IF a.kv_cache_dtype # "auto" THEN "error_unsupported_dtype"
    ELSE IF a.block_stride # a.v_block_stride THEN "error_stride"
    ELSE "launched"

reshape_and_cache_flash ==
    /\ sc_status = "idle"
    /\ sc_args.layout = "flat"
    /\ LET outcome == flash_checks(sc_args)
       IN /\ sc_status' = outcome
          /\ sc_threads' = IF outcome = "launched"
                           THEN [t \in scatter_grid(sc_args) |-> "enter"]
                           ELSE <<>>
    /\ sc_writes' = [key_cache |-> key_cache, value_cache |-> value_cache, stores |-> {}]
    /\ UNCHANGED <<sc_args, key_cache, value_cache>>
    /\ UNCHANGED <<swapVars, copyVars, convertVars>>

at(t, pc) == t \in DOMAIN sc_threads /\ sc_threads[t] = pc

\* a store through a pointer: an offset past the end of the tensor lands
\* outside it
stored(cache, idx, v) == IF idx \in DOMAIN cache THEN [cache EXCEPT ![idx] = v] ELSE cache

\* if (slot_idx < 0) return;
kernel_discard(t) ==
    /\ at(t, "enter")
    /\ is_padding(sc_args.slot_mapping[t[1]])
    /\ sc_threads' = [sc_threads EXCEPT ![t] = "done"]
    /\ UNCHANGED <<sc_args, key_cache, value_cache, sc_status, sc_writes>>
    /\ UNCHANGED <<swapVars, copyVars, convertVars>>

\* key_cache[tgt_key_idx] = key[src_key_idx]
kernel_store_key(t) ==
    /\ at(t, "enter")
    /\ ~is_padding(sc_args.slot_mapping[t[1]])
    /\ LET idx == key_target(sc_args, sc_args.slot_mapping[t[1]], t[2])
           src_key_idx == t[1] * key_stride(sc_args) + t[2]
       IN /\ key_cache' = stored(key_cache, idx, key(sc_args)[src_key_idx])
          /\ sc_writes' = [sc_writes EXCEPT !.stores = @ \cup
                              {[cache |-> "key", idx |-> idx, token |-> t[1], i |-> t[2]]}]
    /\ sc_threads' = [sc_threads EXCEPT ![t] = "store_value"]
    /\ UNCHANGED <<sc_args, value_cache, sc_status>>
    /\ UNCHANGED <<swapVars, copyVars, convertVars>>

\* value_cache[tgt_value_idx] = value[src_value_idx]
kernel_store_value(t) ==
    /\ at(t, "store_value")
    /\ LET idx == value_target(sc_args, sc_args.slot_mapping[t[1]], t[2])
           src_value_idx == t[1] * value_stride(sc_args) + t[2]
       IN /\ value_cache' = stored(value_cache, idx, value(sc_args)[src_value_idx])
          /\ sc_writes' = [sc_writes EXCEPT !.stores = @ \cup
                              {[cache |-> "value", idx |-> idx, token |-> t[1], i |-> t[2]]}]
    /\ sc_threads' = [sc_threads EXCEPT ![t] = "done"]
    /\ UNCHANGED <<sc_args, key_cache, sc_status>>
    /\ UNCHANGED <<swapVars, copyVars, convertVars>>

AllScatterThreads == (0..MaxTokens) \X (0..(MaxDim + 1) * (MaxDim + 1))

\* ==================================================================
\* Precision conversion engine: convert_fp8 and vllm::convert_fp8_kernel
\* ==================================================================
ScalarTypes == {"Float", "Half", "BFloat16", "Byte", "Int"}

\* the if/else chains over kv_cache_dtype and the two dtypes: the
\* <Tout, Tin, KV_DTYPE> of the kernel launched, "none" when no branch is
\* taken, or the TORCH_CHECK that fails
convert_dispatch(src_dtype, dst_dtype, kv_cache_dtype) ==
    LET chain(kv_dt) ==
            IF src_dtype = "Float" THEN <<"uint8_t", "float", kv_dt>>
            ELSE IF src_dtype = "Half" THEN <<"uint8_t", "uint16_t", kv_dt>>
            ELSE IF src_dtype = "BFloat16" THEN <<"uint8_t", "__nv_bfloat16", kv_dt>>
            ELSE IF dst_dtype = "Float" THEN <<"float", "uint8_t", kv_dt>>
            ELSE IF dst_dtype = "Half" THEN <<"uint16_t", "uint8_t", kv_dt>>
            ELSE IF dst_dtype = "BFloat16" THEN <<"__nv_bfloat16", "uint8_t", kv_dt>>
            ELSE "none"
    IN IF kv_cache_dtype = "auto" THEN chain("kAuto")
       ELSE IF kv_cache_dtype \in {"fp8", "fp8_e4m3"} THEN chain("kFp8E4M3")
       ELSE "error_unsupported_data_type"

\* what dst_cache holds at offset o before the call
unconverted(o) == [scaled_convert |-> <<"none", "none", "none">>, of |-> -1 - o]

convert_parked ==
    /\ cv_args = <<>> /\ dst_cache = <<>> /\ cv_status = "parked" /\ cv_kernel = <<>>

convert_init ==
    /\ cv_args \in [src_device : {Cpu, Cuda(0), Cuda(1)}, dst_device : {Cpu, Cuda(0), Cuda(1)},
                    src_dtype : ScalarTypes, dst_dtype : ScalarTypes,
                    kv_cache_dtype : {"auto", "fp8", "fp8_e4m3", "fp8_e5m2"},
                    num_blocks : 1..MaxDim, block_stride : 1..MaxDim]
    /\ dst_cache = [o \in 0..cv_args.num_blocks * cv_args.block_stride - 1 |-> unconverted(o)]
    /\ cv_status = "idle"
    /\ cv_kernel = <<>>

\* src_cache holds pairwise distinct values
src_cache(a) == [o \in 0..a.num_blocks * a.block_stride - 1 |-> 1 + o]

convert_fp8 ==
    /\ cv_status = "idle"
    /\ LET a == cv_args
           inst == convert_dispatch(a.src_dtype, a.dst_dtype, a.kv_cache_dtype)
           outcome == IF ~is_cuda(a.src_device) THEN "error_src_gpu"
                      ELSE IF ~is_cuda(a.dst_device) THEN "error_dst_gpu"
                      ELSE IF a.src_device.index # a.dst_device.index THEN "error_same_gpu"
                      ELSE IF inst = "error_unsupported_data_type" THEN inst
                      ELSE "returned"
       IN /\ cv_status' = outcome
          /\ cv_kernel' = IF outcome = "returned" /\ inst # "none"
                          THEN [inst |-> inst,
                                threads |-> (0..a.num_blocks-1) \X (0..a.block_stride-1)]
                          ELSE <<>>
    /\ UNCHANGED <<cv_args, dst_cache>>
    /\ UNCHANGED <<swapVars, copyVars, scatterVars>>

\* dim3 block(min(block_stride, 512)): below 512 elements a block each thread
\* converts one element.  fp8::scaled_convert is kept as a term over its
\* template arguments and inputs.
convert_fp8_kernel(t) ==
    /\ cv_kernel # <<>>
    /\ t \in cv_kernel.threads
    /\ LET idx == t[1] * cv_args.block_stride + t[2]
       IN dst_cache' = [dst_cache EXCEPT ![idx] =
                           [scaled_convert |-> cv_kernel.inst, of |-> src_cache(cv_args)[idx]]]
    /\ cv_kernel' = [cv_kernel EXCEPT !.threads = @ \ {t}]
    /\ UNCHANGED <<cv_args, cv_status>>
    /\ UNCHANGED <<swapVars, copyVars, scatterVars>>

\* ==================================================================
\* Specifications
\* ==================================================================
swap_next == swap_blocks \/ memcpy_step

InitSwap == swap_init /\ copy_parked /\ scatter_parked /\ convert_parked

SpecSwap == InitSwap /\ [][swap_next]_vars

copy_next ==
    \/ copy_blocks
    \/ \E t \in AllThreads : copy_blocks_kernel_load_key(t)
    \/ \E t \in AllThreads : copy_blocks_kernel_store_key(t)
    \/ \E t \in AllThreads : copy_blocks_kernel_load_value(t)
    \/ \E t \in AllThreads : copy_blocks_kernel_store_value(t)

InitCopy == copy_init /\ swap_parked /\ scatter_parked /\ convert_parked

SpecCopy == InitCopy /\ [][copy_next]_vars

InitChain == chain_init /\ swap_parked /\ scatter_parked /\ convert_parked

SpecChain == InitChain /\ [][copy_next]_vars

scatter_next ==
    \/ reshape_and_cache
    \/ reshape_and_cache_flash
    \/ \E t \in AllScatterThreads : kernel_discard(t)
    \/ \E t \in AllScatterThreads : kernel_store_key(t)
    \/ \E t \in AllScatterThreads : kernel_store_value(t)

InitScatter == scatter_init /\ swap_parked /\ copy_parked /\ convert_parked

SpecScatter == InitScatter /\ [][scatter_next]_vars

InitAddr == addr_init /\ swap_parked /\ copy_parked /\ convert_parked

SpecAddr == InitAddr /\ [][scatter_next]_vars

convert_next ==
    \/ convert_fp8
    \/ \E t \in (0..MaxDim) \X (0..MaxDim) : convert_fp8_kernel(t)

InitConvert == convert_init /\ swap_parked /\ copy_parked /\ scatter_parked

SpecConvert == InitConvert /\ [][convert_next]_vars

\* ==================================================================
\* Claims about swap_blocks (SpecSwap)
\* ==================================================================
SwapMapping == sw_args.block_mapping

\* bytes of one block: element size times elements per block
BlockBytes == sw_args.element_size * sw_args.numel

SwapDone == sw_status = "returned" /\ sw_stream = <<>>

\* dst block of pair i holds the bytes src block of pair i held before the call
DstBlockHoldsSrc(i) ==
    \A k \in 0..BlockBytes-1 :
        sw_dst[SwapMapping[i][2] * BlockBytes + k] = sw_call.src[SwapMapping[i][1] * BlockBytes + k]

\* no later pair names the destination of pair i
LastPairForDst(i) ==
    \A j \in i+1..Len(SwapMapping) : SwapMapping[j][2] # SwapMapping[i][2]

\* the stream holds the copies of the last pairs of the mapping, in mapping order
PendingInMappingOrder ==
    \A k \in 1..Len(sw_stream) :
        LET i == Len(SwapMapping) - Len(sw_stream) + k
        IN /\ i >= 1
           /\ sw_stream[k].src_off = SwapMapping[i][1] * BlockBytes
           /\ sw_stream[k].dst_off = SwapMapping[i][2] * BlockBytes
           /\ sw_stream[k].nbytes = BlockBytes

\* C1 as stated: once every copy of an accepted call has completed, the
\* destination block of EVERY pair holds the bytes its source block held
\* just before the call.
C1_EveryPairHoldsItsSource ==
    SwapDone => \A i \in 1..Len(SwapMapping) : DstBlockHoldsSrc(i)

\* C1 amended: an accepted call returns with one copy per pair pending, the
\* copies run in mapping order, and once all have completed every
\* destination block holds the bytes that the source block of the LAST pair
\* naming it held just before the call.
C1_LastPairHoldsItsSource ==
    /\ sw_status = "returned" =>
          /\ sw_call.pending = Len(SwapMapping)
          /\ PendingInMappingOrder
    /\ SwapDone =>
          \A i \in 1..Len(SwapMapping) : LastPairForDst(i) => DstBlockHoldsSrc(i)

\* two pairs with different sources name the same destination, device to
\* host, blocks of several bytes, and all copies have completed
C1_Witness ==
    /\ SwapDone
    /\ sw_call.pending = 2
    /\ is_cuda(sw_args.src_device) /\ is_cpu(sw_args.dst_device)
    /\ BlockBytes > 1
    /\ SwapMapping[1][2] = SwapMapping[2][2]
    /\ SwapMapping[1][1] # SwapMapping[2][1]

\* the residency combinations the contract accepts
ResidencyAccepted ==
    /\ \/ is_cuda(sw_args.src_device) /\ is_cpu(sw_args.dst_device)
       \/ is_cpu(sw_args.src_device) /\ is_cuda(sw_args.dst_device)
       \/ /\ is_cuda(sw_args.src_device) /\ is_cuda(sw_args.dst_device)
          /\ sw_args.src_device = sw_args.dst_device
    /\ is_cpu(sw_args.block_mapping_device)

\* C5: swap_blocks is accepted exactly for device-to-host, host-to-device
\* and same-device transfers with a host-resident mapping; every other call
\* raises an error with no copy enqueued and both buffers as they were.
C5_ResidencyRule ==
    sw_status \in {"returned", "error"} =>
        /\ sw_status = "returned" <=> ResidencyAccepted
        /\ sw_status = "error" =>
              /\ sw_call.error # "none"
              /\ sw_call.pending = 0 /\ sw_stream = <<>>
              /\ sw_dst = sw_call.dst /\ sw_src = sw_call.src

\* a rejected transfer between two different GPUs, with pairs to copy
C5_Witness ==
    /\ sw_status = "error"
    /\ sw_args.src_device = Cuda(0) /\ sw_args.dst_device = Cuda(1)
    /\ is_cpu(sw_args.block_mapping_device)
    /\ Len(SwapMapping) = 2

\* ==================================================================
\* Claims about copy_blocks (SpecCopy, SpecChain)
\* ==================================================================
\* every call the caller planned was made and launched its kernel, and the
\* stream has run every kernel to its end
CopyDone ==
    /\ cb_next = Len(cb_args.plan) + 1
    /\ cb_queue = <<>>
    /\ \A c \in 1..Len(cb_log) : cb_log[c].outcome = "launched"

Layers == 0..cb_args.num_layers-1

Elems == 0..cb_args.numel_per_block-1

\* block b of cache now against block a of cache before, element for element
SameBlock(now, b, before, a) ==
    \A e \in Elems :
        now[b * cb_args.numel_per_block + e] = before[a * cb_args.numel_per_block + e]

Sources(mapping) == {mapping[i][1] : i \in DOMAIN mapping}

Destinations(mapping) == {mapping[i][2] : i \in DOMAIN mapping}

\* what the caches held before the caller's first call
KeyBefore == initial_cache(cb_args, 0)

ValueBefore == initial_cache(cb_args, 1)

DistinctDestinations(mapping) ==
    \A i, j \in DOMAIN mapping : mapping[i][2] = mapping[j][2] => i = j

\* C2: after one copy_blocks call whose destinations are pairwise distinct
\* and none of which is also a source, in every layer the key cache and the
\* value cache have block dst equal to that cache's pre-call block src for
\* every pair, and every block that is not a destination (every source
\* among them) is unchanged.
C2_ReplicateBlocks ==
    LET mapping == cb_args.plan[1].block_mapping
    IN (/\ Len(cb_args.plan) = 1
        /\ CopyDone
        /\ DistinctDestinations(mapping)
        /\ Destinations(mapping) \cap Sources(mapping) = {})
       => \A l \in Layers :
            /\ \A i \in DOMAIN mapping :
                  /\ SameBlock(key_caches[1][l], mapping[i][2],
                               KeyBefore[1][l], mapping[i][1])
                  /\ SameBlock(value_caches[1][l], mapping[i][2],
                               ValueBefore[1][l], mapping[i][1])
            /\ \A b \in 0..cb_args.num_blocks-1 :
                  b \notin Destinations(mapping) =>
                      /\ SameBlock(key_caches[1][l], b, KeyBefore[1][l], b)
                      /\ SameBlock(value_caches[1][l], b, ValueBefore[1][l], b)

\* two layers, two pairs from one source block to two other blocks, done
C2_Witness ==
    /\ Len(cb_args.plan) = 1
    /\ CopyDone
    /\ cb_args.num_layers = 2
    /\ cb_args.plan[1].block_mapping = <<<<0, 1>>, <<0, 2>>>>

ChainAB == cb_args.plan[1].block_mapping

ChainBC == cb_args.plan[2].block_mapping

ChainAC == cb_args.plan[3].block_mapping

\* every block C in the chained layer list equals the same block in the
\* layer list that was replicated directly
ChainedEqualsDirect ==
    \A l \in Layers : \A i \in DOMAIN ChainAC :
        /\ SameBlock(key_caches[1][l], ChainAC[i][2], key_caches[2][l], ChainAC[i][2])
        /\ SameBlock(value_caches[1][l], ChainAC[i][2], value_caches[2][l], ChainAC[i][2])

\* no pair's destination is another pair's source
NoPairFeedsAnother(mapping) ==
    \A i, j \in DOMAIN mapping : i # j => mapping[i][2] # mapping[j][1]

\* C8 as stated: for pair lists with non-duplicate destinations,
\* copy_blocks(A->B) then copy_blocks(B->C) leaves every block C equal to
\* what copy_blocks(A->C) produces from the same initial state.
C8_ChainEqualsDirect ==
    (/\ Len(cb_args.plan) = 3
     /\ CopyDone
     /\ DistinctDestinations(ChainAB) /\ DistinctDestinations(ChainBC))
    => ChainedEqualsDirect

\* C8 amended: the same, for pair lists where moreover, in each of the
\* three calls, no pair's destination is another pair's source.
C8_ChainEqualsDirectNoFeed ==
    (/\ Len(cb_args.plan) = 3
     /\ CopyDone
     /\ DistinctDestinations(ChainAB) /\ DistinctDestinations(ChainBC)
     /\ NoPairFeedsAnother(ChainAB) /\ NoPairFeedsAnother(ChainBC)
     /\ NoPairFeedsAnother(ChainAC))
    => ChainedEqualsDirect

\* two pairs, all three calls done, and a block C that is neither its A
\* nor its B now holds what A held at the start
C8_Witness ==
    /\ Len(cb_args.plan) = 3
    /\ CopyDone
    /\ Len(ChainAB) = 2
    /\ NoPairFeedsAnother(ChainAB) /\ NoPairFeedsAnother(ChainBC)
    /\ NoPairFeedsAnother(ChainAC)
    /\ \E i \in DOMAIN ChainAC :
          /\ ChainAC[i][2] # ChainAC[i][1]
          /\ ChainAC[i][2] # ChainAB[i][2]
          /\ ChainAB[i][2] # ChainAB[i][1]
          /\ SameBlock(key_caches[1][0], ChainAC[i][2],
                       KeyBefore[1][0], ChainAC[i][1])

\* the kernel's copy units of one layer run one after another in index
\* order: pairs 0..num_pairs-1, each pair's elements together (the elements
\* of one pair never touch each other's offsets)
RECURSIVE units_in_index_order(_, _, _)
units_in_index_order(cache, k, num_pairs) ==
    IF num_pairs = 0 THEN cache
    ELSE LET c == units_in_index_order(cache, k, num_pairs - 1)
             src == src_block_offset(k, num_pairs - 1)
             dst == dst_block_offset(k, num_pairs - 1)
         IN [o \in DOMAIN c |->
                IF o >= dst /\ o < dst + k.numel_per_block
                THEN c[src + (o - dst)]
                ELSE c[o]]

OneCall == [block_mapping |-> cb_args.plan[1].block_mapping,
            numel_per_block |-> cb_args.numel_per_block]

\* every layer's key and value cache is what running the units one at a
\* time leaves: whatever order the units ran in, the result is this one
SameAsInIndexOrder ==
    \A l \in Layers :
        /\ key_caches[1][l] =
              units_in_index_order(KeyBefore[1][l], OneCall, Len(OneCall.block_mapping))
        /\ value_caches[1][l] =
              units_in_index_order(ValueBefore[1][l], OneCall, Len(OneCall.block_mapping))

\* C11 as stated: for every block mapping whose destinations are pairwise
\* distinct, the contents of every layer's key and value cache after one
\* copy_blocks call are the same under every interleaving of the
\* (layer, pair, element) copy units.
C11_DeterministicDistinctDestinations ==
    (/\ Len(cb_args.plan) = 1
     /\ CopyDone
     /\ DistinctDestinations(OneCall.block_mapping))
    => SameAsInIndexOrder

\* C11 amended: the same, for block mappings where moreover no pair's
\* destination is another pair's source.
C11_DeterministicNoFeed ==
    (/\ Len(cb_args.plan) = 1
     /\ CopyDone
     /\ DistinctDestinations(OneCall.block_mapping)
     /\ NoPairFeedsAnother(OneCall.block_mapping))
    => SameAsInIndexOrder

\* two pairs with different sources and different destinations, two
\* elements a block, done: both destinations changed and the caches are
\* what the units leave in index order
C11_Witness ==
    /\ Len(cb_args.plan) = 1
    /\ CopyDone
    /\ cb_args.num_layers >= 1
    /\ cb_args.numel_per_block = 2
    /\ cb_args.plan[1].block_mapping = <<<<0, 1>>, <<2, 2>>>>
    /\ key_caches[1][0] # KeyBefore[1][0]
    /\ SameAsInIndexOrder

\* ==================================================================
\* Claims about reshape_and_cache and reshape_and_cache_flash
\* (SpecScatter, SpecAddr)
\* ==================================================================
Tokens == 0..sc_args.num_tokens-1

Channels == 0..sc_args.num_heads * sc_args.head_size - 1

Slot(t) == sc_args.slot_mapping[t]

\* the kernel was launched and every thread has returned
ScatterDone ==
    /\ sc_status = "launched"
    /\ \A t \in DOMAIN sc_threads : sc_threads[t] = "done"

\* the address formulas of the design, for slot s and channel i of shape a
SplitKeyOffset(a, s, i) ==
    LET head == i \div a.head_size
        head_off == i % a.head_size
        block == s \div a.block_size
        boff == s % a.block_size
    IN block * a.num_heads * (a.head_size \div a.x) * a.block_size * a.x
       + head * (a.head_size \div a.x) * a.block_size * a.x
       + (head_off \div a.x) * a.block_size * a.x + boff * a.x + (head_off % a.x)

SplitValueOffset(a, s, i) ==
    LET head == i \div a.head_size
        head_off == i % a.head_size
        block == s \div a.block_size
        boff == s % a.block_size
    IN block * a.num_heads * a.head_size * a.block_size
       + head * a.head_size * a.block_size + head_off * a.block_size + boff

FlatOffset(a, s, i) ==
    (s \div a.block_size) * a.block_stride
    + (s % a.block_size) * a.num_heads * a.head_size
    + (i \div a.head_size) * a.head_size + (i % a.head_size)

KeyOffset(s, i) ==
    IF sc_args.layout = "split" THEN SplitKeyOffset(sc_args, s, i)
    ELSE FlatOffset(sc_args, s, i)

ValueOffset(s, i) ==
    IF sc_args.layout = "split" THEN SplitValueOffset(sc_args, s, i)
    ELSE FlatOffset(sc_args, s, i)

KeyIn(t, i) == key(sc_args)[t * sc_args.num_heads * sc_args.head_size + i]

ValueIn(t, i) == value(sc_args)[t * sc_args.num_heads * sc_args.head_size + i]

\* the offsets addressed by some non-discarded (token, channel)
KeyOffsetsNamed == {KeyOffset(Slot(t), i) : t \in {u \in Tokens : Slot(u) >= 0}, i \in Channels}

ValueOffsetsNamed == {ValueOffset(Slot(t), i) : t \in {u \in Tokens : Slot(u) >= 0}, i \in Channels}

\* every cache element not named by the mapping is as it was before the call
RestUnchanged ==
    /\ \A o \in DOMAIN key_cache : o \notin KeyOffsetsNamed => key_cache[o] = sc_writes.key_cache[o]
    /\ \A o \in DOMAIN value_cache :
          o \notin ValueOffsetsNamed => value_cache[o] = sc_writes.value_cache[o]

\* every non-discarded token's vector is in the caches at its slot's offsets
EveryTokenWritten ==
    \A t \in Tokens : Slot(t) >= 0 =>
        \A i \in Channels :
            /\ key_cache[KeyOffset(Slot(t), i)] = KeyIn(t, i)
            /\ value_cache[ValueOffset(Slot(t), i)] = ValueIn(t, i)

DistinctValidSlots ==
    \A t, u \in Tokens : Slot(t) >= 0 /\ Slot(t) = Slot(u) => t = u

\* block_size=16, heads=2, head_size=4, x=2, slot_mapping=[5,-1,20]
Scenario ==
    [layout |-> "split", num_tokens |-> 3, num_heads |-> 2, head_size |-> 4,
     block_size |-> 16, x |-> 2, num_blocks |-> 2,
     slot_mapping |-> [t \in 0..2 |-> IF t = 0 THEN 5 ELSE IF t = 1 THEN -1 ELSE 20],
     kv_cache_dtype |-> "auto", block_stride |-> 1, v_block_stride |-> 1]

\* the kernel's targets for a slot lie in block b at offset boff, reading the
\* key cache as [blocks, heads, head_size/x, block_size, x] and the value
\* cache as [blocks, heads, head_size, block_size]
ScenarioLands(s, b, boff) ==
    \A i \in 0..7 :
        /\ tgt_key_idx(Scenario, s, i) = SplitKeyOffset(Scenario, s, i)
        /\ tgt_value_idx(Scenario, s, i) = SplitValueOffset(Scenario, s, i)
        /\ tgt_key_idx(Scenario, s, i) \div 128 = b
        /\ (tgt_key_idx(Scenario, s, i) \div 2) % 16 = boff
        /\ tgt_value_idx(Scenario, s, i) \div 128 = b
        /\ tgt_value_idx(Scenario, s, i) % 16 = boff

ScenarioHolds ==
    /\ ScenarioLands(5, 0, 5)
    /\ is_padding(Scenario.slot_mapping[1])
    /\ ScenarioLands(20, 1, 4)

\* C3 as stated: after a direct-copy reshape_and_cache, for EVERY
\* non-discarded token and channel the key cache and the value cache hold
\* the token's element at the slot's offset, and the rest is unchanged.
C3_EveryTokenAtItsSlot ==
    (sc_args.layout = "split" /\ ScatterDone) => EveryTokenWritten /\ RestUnchanged

\* C3 amended: the same for slot mappings whose non-negative slots are
\* pairwise distinct; and in the scenario slot 5 lands in block 0 at offset
\* 5, slot -1 is discarded and slot 20 lands in block 1 at offset 4.
C3_DistinctSlotsAtTheirSlot ==
    /\ (sc_args.layout = "split" /\ ScatterDone /\ DistinctValidSlots)
          => EveryTokenWritten /\ RestUnchanged
    /\ ScenarioHolds

\* two tokens with different valid slots, two channels in one x-chunk
C3_Witness ==
    /\ sc_args.layout = "split" /\ ScatterDone
    /\ sc_args.num_tokens = 2 /\ sc_args.head_size = 2 /\ sc_args.x = 2
    /\ sc_args.block_size = 2
    /\ Slot(0) = 3 /\ Slot(1) = 0

AllDiscarded == \A t \in Tokens : Slot(t) < 0

\* C4: a token with a negative slot makes no store in either cache and no
\* error; when every slot is negative both caches are, after the call, what
\* they were before it.
C4_DiscardRule ==
    /\ sc_status \in {"launched"} =>
          \A w \in sc_writes.stores : Slot(w.token) >= 0
    /\ (ScatterDone /\ AllDiscarded) =>
          /\ key_cache = sc_writes.key_cache
          /\ value_cache = sc_writes.value_cache
          /\ sc_writes.stores = {}
    /\ sc_status \in {"error_unsupported_dtype", "error_stride"} =>
          /\ sc_args.layout = "flat"
          /\ \/ sc_args.kv_cache_dtype # "auto"
             \/ sc_args.block_stride # sc_args.v_block_stride

\* a flat-layout call with two tokens, both discarded, has completed
C4_Witness ==
    /\ ScatterDone /\ AllDiscarded
    /\ sc_args.layout = "flat" /\ sc_args.num_tokens = 2

\* a split-layout call has completed in which one token was discarded and
\* the other was written
C4_WitnessSplit ==
    /\ ScatterDone
    /\ sc_args.layout = "split" /\ sc_args.num_tokens = 2
    /\ Slot(0) < 0 /\ Slot(1) >= 0

\* C7: reshape_and_cache_flash with a kv_cache_dtype other than "auto"
\* fails as unsupported, and with different key and value block strides
\* fails its precondition; in both cases no kernel is launched and neither
\* cache is modified.
C7_FlashRejects ==
    (sc_args.layout = "flat" /\ sc_status # "idle") =>
        /\ sc_args.kv_cache_dtype # "auto" => sc_status = "error_unsupported_dtype"
        /\ (sc_args.kv_cache_dtype = "auto" /\ sc_args.block_stride # sc_args.v_block_stride)
              => sc_status = "error_stride"
        /\ sc_status \in {"error_unsupported_dtype", "error_stride"} =>
              /\ sc_threads = <<>>
              /\ sc_writes.stores = {}
              /\ key_cache = sc_writes.key_cache
              /\ value_cache = sc_writes.value_cache

\* a quantized flat call with a token to write was rejected
C7_Witness ==
    /\ sc_args.layout = "flat"
    /\ sc_status = "error_unsupported_dtype"
    /\ sc_args.num_tokens = 2 /\ Slot(0) >= 0

\* a flat call with differing block strides was rejected
C7_WitnessStride ==
    /\ sc_args.layout = "flat"
    /\ sc_status = "error_stride"
    /\ sc_args.num_tokens = 2 /\ Slot(0) >= 0

TokensAt(s) == {u \in Tokens : Slot(u) = s}

\* nothing outside the offsets named by the mapping was stored to or changed
OnlyNamedWritten ==
    /\ \A w \in sc_writes.stores :
          IF w.cache = "key" THEN w.idx \in KeyOffsetsNamed ELSE w.idx \in ValueOffsetsNamed
    /\ RestUnchanged

\* C9 as stated: with duplicate valid slots the call completes and the
\* entry of each slot holds the vector of ONE of the tokens that name it.
C9_WholeVectorOfOneToken ==
    ScatterDone =>
        /\ \A t \in Tokens : Slot(t) >= 0 =>
              /\ \E u \in TokensAt(Slot(t)) :
                    \A i \in Channels : key_cache[KeyOffset(Slot(t), i)] = KeyIn(u, i)
              /\ \E u \in TokensAt(Slot(t)) :
                    \A i \in Channels : value_cache[ValueOffset(Slot(t), i)] = ValueIn(u, i)
        /\ OnlyNamedWritten

\* C9 amended: the call completes under every interleaving and each ELEMENT
\* of a slot's entry holds the corresponding element of one of the tokens
\* that name the slot (elements of one entry may come from different
\* tokens); nothing outside the named slots is written.
C9_EachElementOfOneToken ==
    /\ (sc_status = "launched" /\ ~ScatterDone) => ENABLED scatter_next
    /\ sc_status = "launched" => OnlyNamedWritten
    /\ ScatterDone =>
          \A t \in Tokens : Slot(t) >= 0 =>
              \A i \in Channels :
                  /\ \E u \in TokensAt(Slot(t)) :
                        key_cache[KeyOffset(Slot(t), i)] = KeyIn(u, i)
                  /\ \E u \in TokensAt(Slot(t)) :
                        value_cache[ValueOffset(Slot(t), i)] = ValueIn(u, i)

\* two tokens name slot 1; the entry's first key element is token 0's and
\* its second is token 1's
C9_Witness ==
    /\ ScatterDone
    /\ sc_args.num_tokens = 2 /\ Slot(0) = 1 /\ Slot(1) = 1
    /\ sc_args.num_heads * sc_args.head_size = 2
    /\ key_cache[KeyOffset(1, 0)] = KeyIn(0, 0)
    /\ key_cache[KeyOffset(1, 1)] = KeyIn(1, 1)

\* elements of one block of the cache, from its shape
BlockNumel(cache) ==
    IF sc_args.layout = "flat" THEN sc_args.block_stride
    ELSE IF cache = "key"
    THEN sc_args.num_heads * (sc_args.head_size \div sc_args.x) * sc_args.block_size * sc_args.x
    ELSE sc_args.num_heads * sc_args.head_size * sc_args.block_size

CacheNumel(cache) == sc_args.num_blocks * BlockNumel(cache)

\* no two units stored at one offset of a cache; each store is inside the
\* block of its slot and inside the cache
TargetsDisjointInBounds ==
    /\ \A w, v \in sc_writes.stores :
          (w.cache = v.cache /\ w.idx = v.idx) => (w.token = v.token /\ w.i = v.i)
    /\ \A w \in sc_writes.stores :
          LET b == Slot(w.token) \div sc_args.block_size
          IN /\ b * BlockNumel(w.cache) <= w.idx
             /\ w.idx < (b + 1) * BlockNumel(w.cache)
             /\ w.idx < CacheNumel(w.cache)

\* C10 as stated: for ALL positive heads, head_size, block_size, x and all
\* block strides the host functions accept, and distinct in-range slots,
\* the targets are pairwise disjoint, inside their slot's block and in bounds.
C10_TargetsDisjointAllShapes ==
    sc_status = "launched" => TargetsDisjointInBounds

\* C10 amended: the same when x divides head_size (split layout) and the
\* block stride is at least block_size * heads * head_size (flat layout).
C10_TargetsDisjointValidShapes ==
    (/\ sc_status = "launched"
     /\ sc_args.layout = "split" => sc_args.head_size % sc_args.x = 0
     /\ sc_args.layout = "flat" =>
           sc_args.block_stride >= sc_args.block_size * sc_args.num_heads * sc_args.head_size)
    => TargetsDisjointInBounds

\* every unit of a two-token, two-channel split call with x = 2 has stored
C10_Witness ==
    /\ ScatterDone
    /\ sc_args.layout = "split" /\ sc_args.x = 2 /\ sc_args.head_size = 2
    /\ sc_args.num_tokens = 2 /\ sc_args.block_size = 2
    /\ Slot(0) >= 0 /\ Slot(1) >= 0
    /\ Cardinality(sc_writes.stores) = 8

\* ==================================================================
\* Claims about convert_fp8 (SpecConvert)
\* ==================================================================
WideTypes == {"Float", "Half", "BFloat16"}

\* the six pairings: a wide type on one side, the byte type on the other
SupportedPairing ==
    \/ cv_args.src_dtype \in WideTypes /\ cv_args.dst_dtype = "Byte"
    \/ cv_args.src_dtype = "Byte" /\ cv_args.dst_dtype \in WideTypes

KnownEncoding == cv_args.kv_cache_dtype \in {"auto", "fp8", "fp8_e4m3"}

SameGpu ==
    /\ is_cuda(cv_args.src_device) /\ is_cuda(cv_args.dst_device)
    /\ cv_args.src_device.index = cv_args.dst_device.index

DstUnwritten == \A o \in DOMAIN dst_cache : dst_cache[o] = unconverted(o)

\* C6: convert_fp8 converts only for the six supported dtype pairings under
\* a known encoding; every other pairing and every unknown encoding fails
\* with an unsupported-operation error and leaves the destination unwritten.
C6_UnsupportedPairingFails ==
    (cv_status # "idle" /\ SameGpu) =>
        IF SupportedPairing /\ KnownEncoding
        THEN cv_status = "returned"
        ELSE /\ cv_status = "error_unsupported_data_type"
             /\ cv_kernel = <<>>
             /\ DstUnwritten

\* what the code does hold to: an unknown encoding fails and writes nothing,
\* and a supported pairing under a known encoding launches the kernel of
\* that pairing
C6_UnknownEncodingFails ==
    (cv_status # "idle" /\ SameGpu) =>
        /\ ~KnownEncoding =>
              /\ cv_status = "error_unsupported_data_type"
              /\ cv_kernel = <<>>
              /\ DstUnwritten
        /\ (KnownEncoding /\ SupportedPairing) => cv_status = "returned"

\* a float-to-float call under "auto" returned and its kernel wrote dst
C6_Witness ==
    /\ cv_status = "returned"
    /\ cv_args.src_dtype = "Float" /\ cv_args.dst_dtype = "Float"
    /\ cv_args.kv_cache_dtype = "auto"
    /\ ~DstUnwritten

====
